---- MODULE Spec2Model ----
(***************************************************************************)
(* Model of the viewer state kept by FeReaderWindow (src/main.py): the     *)
(* open document, the page index, the PDF zoom factor, the EPUB font size, *)
(* the layout mode, the "continuous layout must be rebuilt" flag and what  *)
(* the three stacked widgets and the status bar show.                      *)
(*                                                                         *)
(* Zoom factors are kept in integer hundredths (1.0 = 100, step 0.15 = 15).*)
(* Every action is one Qt handler run to completion on the UI thread.      *)
(* A widget is modelled by the content it was last given (which page or    *)
(* image), not by its pixels or font; only the labels of the continuous    *)
(* layout keep the zoom they were built at.  The settings (theme, font,    *)
(* base font size, language), settings.ini and the directory an EPUB is    *)
(* extracted to are state as well; strings of digits are sequences of      *)
(* characters, so that int() and str() are conversions.                    *)
(***************************************************************************)
EXTENDS Integers, Sequences, FiniteSets, TLC

VARIABLES
    config,                    \* self.config: section -> (option -> value)
    settings_file,             \* what settings.ini holds
    language,                  \* self.language
    theme,                     \* self.theme
    font_family,               \* self.font_family
    base_font_size,            \* self.base_font_size
    current_book_type,         \* self.current_book_type: "none" | "pdf" | "epub"
    current_book_path,         \* self.current_book_path: NoPath or a path
    current_book_title,        \* self.current_book_title
    pages,                     \* self.pages
    current_index,             \* self.current_index
    current_font_size,         \* self.current_font_size
    current_zoom,              \* self.current_zoom, in hundredths
    pdf_images,                \* self.pdf_images
    epub_temp_dir,             \* self.epub_temp_dir: NoDir or a directory name
    temp_dirs,                 \* the fereader_epub_* directories that exist
    view_mode,                 \* self.view_mode
    continuous_needs_build,    \* self._continuous_needs_build
    stack,                     \* self.stack.currentWidget()
    text_view,                 \* content of self.text_view
    single_image_label,        \* pixmap of self.single_image_label
    statusbar,                 \* message of self.statusBar()
    multi_layout,              \* the labels of self.multi_layout
    crashed,                   \* an exception escaped a handler
    closed,                    \* closeEvent was accepted: the window is gone
    disk,                      \* the files the file dialog can return
    bounded,                   \* whether the session explored is bounded
    budget,                    \* handler calls left in a bounded session
    obs                        \* what the last handler did (observation only)

vars == << config, settings_file, language, theme, font_family,
           base_font_size, current_book_type, current_book_path,
           current_book_title, pages, current_index, current_font_size,
           current_zoom, pdf_images, epub_temp_dir, temp_dirs, view_mode,
           continuous_needs_build, stack, text_view, single_image_label,
           statusbar, multi_layout, crashed, closed, disk, bounded, budget, obs >>

---------------------------------------------------------------------------
(* Bounds of the model *)

MaxPages == 3

\* length of the sessions explored when all kinds of files are on disk
MaxSteps == 4

\* length of the sessions explored when only a PDF is on disk
MaxPdfSteps == 6

\* length of the sessions explored from every content of settings.ini
MaxSettingsSteps == 3

(* Program constants *)

ZoomMin == 50
ZoomMax == 300
ZoomStep == 15
ZoomDefault == 100
FontMin == 8
FontMax == 40
SpinMin == 8
SpinMax == 48
DefaultFontSize == 12

(* Inputs *)

\* values the settings spin box is left at when the dialog is accepted
SpinValues == {SpinMin, DefaultFontSize, SpinMax}

\* what SettingsDialog.get_values returns when the dialog is accepted: the
\* one font installed, each of the spin values, each theme and each
\* language
DialogValues ==
    { [font_family |-> "DejaVu Sans", font_size |-> SpinMin,
       theme |-> "light", language |-> "en"],
      [font_family |-> "DejaVu Sans", font_size |-> DefaultFontSize,
       theme |-> "dark", language |-> "th"],
      [font_family |-> "DejaVu Sans", font_size |-> SpinMax,
       theme |-> "dark", language |-> "en"] }

\* event.angleDelta().y() of a wheel event: one notch down, none, one up
Deltas == {-120, 0, 120}

\* the vertical scroll bar of single_scroll: a page that fits (minimum =
\* maximum), and a longer one at its top, in the middle and at its bottom
Bars ==
    { [value |-> 0, minimum |-> 0, maximum |-> 0],
      [value |-> 0, minimum |-> 0, maximum |-> 2],
      [value |-> 1, minimum |-> 0, maximum |-> 2],
      [value |-> 2, minimum |-> 0, maximum |-> 2] }

\* percentages typed into the "Set Zoom" dialog (QInputDialog.getInt keeps
\* them within its min..max, 50..300)
ZoomDialogValues == {ZoomMin, 200, ZoomMax}

NoPath == << >>

\* a path is <<directory, stem, extension>>
PathA == << "/d/", "a", ".PDF" >>
PathS == << "/d/", "s", ".pdf" >>
PathB == << "/d/", "b", ".epub" >>
PathT == << "/d/", "t", ".txt" >>

Paths == {PathA, PathS, PathB, PathT}

\* what is on disk: page (chapter) count and whether a password is needed
Disk(path) ==
    CASE path = PathA -> [n |-> MaxPages, needs_pass |-> FALSE]
      [] path = PathS -> [n |-> 2, needs_pass |-> TRUE]
      [] path = PathB -> [n |-> 2, needs_pass |-> FALSE]
      [] OTHER        -> [n |-> 0, needs_pass |-> FALSE]

---------------------------------------------------------------------------
(* The window as one record, so that handlers are functions on it *)

Self ==
    [ config |-> config,
      settings_file |-> settings_file,
      language |-> language,
      theme |-> theme,
      font_family |-> font_family,
      base_font_size |-> base_font_size,
      current_book_type |-> current_book_type,
      current_book_path |-> current_book_path,
      current_book_title |-> current_book_title,
      pages |-> pages,
      current_index |-> current_index,
      current_font_size |-> current_font_size,
      current_zoom |-> current_zoom,
      pdf_images |-> pdf_images,
      epub_temp_dir |-> epub_temp_dir,
      temp_dirs |-> temp_dirs,
      view_mode |-> view_mode,
      continuous_needs_build |-> continuous_needs_build,
      stack |-> stack,
      text_view |-> text_view,
      single_image_label |-> single_image_label,
      statusbar |-> statusbar,
      multi_layout |-> multi_layout,
      crashed |-> crashed,
      closed |-> closed,
      obs |-> obs ]

Apply(w) ==
    /\ config' = w.config
    /\ settings_file' = w.settings_file
    /\ language' = w.language
    /\ theme' = w.theme
    /\ font_family' = w.font_family
    /\ base_font_size' = w.base_font_size
    /\ current_book_type' = w.current_book_type
    /\ current_book_path' = w.current_book_path
    /\ current_book_title' = w.current_book_title
    /\ pages' = w.pages
    /\ current_index' = w.current_index
    /\ current_font_size' = w.current_font_size
    /\ current_zoom' = w.current_zoom
    /\ pdf_images' = w.pdf_images
    /\ epub_temp_dir' = w.epub_temp_dir
    /\ temp_dirs' = w.temp_dirs
    /\ view_mode' = w.view_mode
    /\ continuous_needs_build' = w.continuous_needs_build
    /\ stack' = w.stack
    /\ text_view' = w.text_view
    /\ single_image_label' = w.single_image_label
    /\ statusbar' = w.statusbar
    /\ multi_layout' = w.multi_layout
    /\ crashed' = w.crashed
    /\ closed' = w.closed
    /\ obs' = w.obs

---------------------------------------------------------------------------
(* Values shown or stored *)

Untitled == << "Untitled", "" >>

\* os.path.basename(path)
basename(path) == << path[2], path[3] >>

\* str.lower() on the extensions that occur
lower(ext) == IF ext = ".PDF" THEN ".pdf" ELSE ext

\* os.path.splitext(path)[1]
splitext1(path) == path[3]

\* the QImage rendered from page i (1-based here) of the PDF at path
Img(path, i) == << path, i >>

\* the cleaned HTML of chapter i of the EPUB at path
Html(path, i) == << path, i >>

\* "<h3>No readable content found.</h3>"
NoContentHtml == << NoPath, 0 >>

\* self.tr("no_document") shown as plain text
Placeholder == << "no_document" >>

\* the cleared pixmap of single_image_label
NoPixmap == << >>

\* nothing observed yet in a handler
ObsNone == [open |-> "none", prompts |-> 0, auths |-> 0,
            renders |-> << >>, builds |-> 0, k |-> -1, rmtrees |-> 0,
            started |-> FALSE, prior |-> << >>,
            requests |-> << >>, scrolled |-> FALSE]

\* self.epub_temp_dir = None
NoDir == 0

Min(a, b) == IF a < b THEN a ELSE b

---------------------------------------------------------------------------
(* Settings: settings.ini, the ConfigParser and the dialog *)

\* a string of decimal digits is the sequence of its characters
DigitChars == << "0", "1", "2", "3", "4", "5", "6", "7", "8", "9" >>

\* whether int(s) returns: s is a non-empty string of digits
IsDecimal(s) ==
    /\ s # << >>
    /\ \A i \in 1 .. Len(s) : \E d \in 1 .. 10 : DigitChars[d] = s[i]

\* int(s) of a string of digits
RECURSIVE int(_)
int(s) ==
    IF s = << >> THEN 0
    ELSE int(SubSeq(s, 1, Len(s) - 1)) * 10
         + (CHOOSE d \in 1 .. 10 : DigitChars[d] = s[Len(s)]) - 1

\* str(n) of a natural number
RECURSIVE str(_)
str(n) ==
    IF n < 10 THEN << DigitChars[n + 1] >>
    ELSE str(n \div 10) \o << DigitChars[(n % 10) + 1] >>

\* the option names of section General
Keys == {"theme", "font_family", "font_size", "language"}

\* defaults of _load_or_create_settings
defaults ==
    [theme |-> "light", font_family |-> "Segoe UI",
     font_size |-> << "1", "2" >>, language |-> "en"]

\* the keys of LANG_STRINGS
LangStrings == {"en", "th"}

\* settings.ini: absent, not parsable by ConfigParser.read, or its sections
AbsentFile == [exists |-> FALSE, parsable |-> FALSE, sections |-> << >>]
UnparsableFile == [exists |-> TRUE, parsable |-> FALSE, sections |-> << >>]
IniFile(sections) ==
    [exists |-> TRUE, parsable |-> TRUE, sections |-> sections]

\* a key of a section that is absent (<< >>) or present with value o[1]
Option(key, o) == IF o = << >> THEN << >> ELSE key :> o[1]

OptionsOf(values) == {<< >>} \cup {<< v >> : v \in values}

\* the General sections settings.ini may hold at startup: any subset of
\* the keys, with values that are valid, out of range or malformed
GeneralSections ==
    { Option("theme", t) @@ Option("font_family", f)
        @@ Option("font_size", z) @@ Option("language", l) :
        t \in OptionsOf({"dark", "blue"}),
        f \in OptionsOf({"Arial"}),
        z \in OptionsOf({<< "0", "9" >>, << "1", "0", "0" >>,
                          << "a", "b", "c" >>}),
        l \in OptionsOf({"th", "fr"}) }

\* what settings.ini may hold at startup
SettingsFiles ==
    {AbsentFile, UnparsableFile, IniFile("Window" :> ("width" :> "800"))}
    \cup {IniFile("General" :> g) : g \in GeneralSections}

\* dict.setdefault on a section
setdefault(general, key, value) ==
    IF key \in DOMAIN general THEN general ELSE general @@ (key :> value)

\* _load_or_create_settings that assigns the default theme instead of
\* setdefault
load_or_create_settings_reset_theme(file) ==
    LET read == IF file.exists /\ file.parsable
                THEN file.sections ELSE << >>
        g0 == IF "General" \in DOMAIN read THEN read["General"] ELSE << >>
        g1 == ("theme" :> defaults["theme"]) @@ g0
        g2 == setdefault(g1, "font_family", defaults["font_family"])
        g3 == setdefault(g2, "font_size", defaults["font_size"])
        g4 == setdefault(g3, "language", defaults["language"])
    IN ("General" :> g4) @@ read

\* FeReaderWindow._load_or_create_settings: the ConfigParser it leaves,
\* which is also what it writes to settings.ini
load_or_create_settings(file) ==
    LET read == IF file.exists /\ file.parsable
                THEN file.sections ELSE << >>
        g0 == IF "General" \in DOMAIN read THEN read["General"] ELSE << >>
        g1 == setdefault(g0, "theme", defaults["theme"])
        g2 == setdefault(g1, "font_family", defaults["font_family"])
        g3 == setdefault(g2, "font_size", defaults["font_size"])
        g4 == setdefault(g3, "language", defaults["language"])
    IN ("General" :> g4) @@ read

\* save_settings that does not write the font size
save_settings_no_size(w) ==
    LET general == ("theme" :> w.theme)
                   @@ ("font_family" :> w.font_family)
                   @@ ("language" :> w.language)
                   @@ w.config["General"]
        c == ("General" :> general) @@ w.config
    IN [w EXCEPT !.config = c, !.settings_file = IniFile(c)]

\* FeReaderWindow.save_settings
save_settings(w) ==
    LET general == ("theme" :> w.theme)
                   @@ ("font_family" :> w.font_family)
                   @@ ("font_size" :> str(w.base_font_size))
                   @@ ("language" :> w.language)
                   @@ w.config["General"]
        c == ("General" :> general) @@ w.config
    IN [w EXCEPT !.config = c, !.settings_file = IniFile(c)]

---------------------------------------------------------------------------
(* Rendering *)

\* FeReaderWindow._update_statusbar
update_statusbar(w) ==
    IF w.pages # << >>
    THEN [w EXCEPT !.statusbar =
              << w.current_book_title, w.current_index + 1, Len(w.pages) >>]
    ELSE [w EXCEPT !.statusbar = Placeholder]

\* the label showing image img scaled by zoom
Scaled(img, zoom) == << img, zoom >>

\* _build_continuous_pdf_widgets that leaves the dirty flag set
build_continuous_pdf_widgets_dirty(w) ==
    [w EXCEPT !.multi_layout =
                  [i \in 1 .. Len(w.pdf_images) |->
                      Scaled(w.pdf_images[i], w.current_zoom)],
              !.obs.builds = @ + 1]

\* FeReaderWindow._build_continuous_pdf_widgets
build_continuous_pdf_widgets(w) ==
    [w EXCEPT !.multi_layout =
                  [i \in 1 .. Len(w.pdf_images) |->
                      Scaled(w.pdf_images[i], w.current_zoom)],
              !.continuous_needs_build = FALSE,
              !.obs.builds = @ + 1]

\* FeReaderWindow._update_view
update_view(w0) ==
    LET w == [w0 EXCEPT !.obs.renders = Append(@, w0.continuous_needs_build)]
    IN
    IF w.pages = << >>
    THEN update_statusbar([w EXCEPT !.stack = "text_view",
                                    !.text_view = Placeholder])
    ELSE IF w.current_book_type = "epub"
    THEN IF w.current_index + 1 \in 1..Len(w.pages)
         THEN update_statusbar(
                  [w EXCEPT !.stack = "text_view",
                            !.text_view = w.pages[w.current_index + 1]])
         ELSE \* self.pages[self.current_index] raises IndexError
              [w EXCEPT !.stack = "text_view", !.crashed = TRUE]
    ELSE IF w.current_book_type = "pdf"
    THEN IF w.view_mode = "single"
         THEN IF 0 <= w.current_index /\ w.current_index < Len(w.pdf_images)
              THEN update_statusbar(
                       [w EXCEPT !.stack = "single_scroll",
                                 !.single_image_label =
                                     w.pdf_images[w.current_index + 1]])
              ELSE update_statusbar(
                       [w EXCEPT !.stack = "single_scroll",
                                 !.single_image_label = NoPixmap])
         ELSE IF w.continuous_needs_build
              THEN update_statusbar(build_continuous_pdf_widgets(
                       [w EXCEPT !.stack = "multi_scroll"]))
              ELSE update_statusbar([w EXCEPT !.stack = "multi_scroll"])
    ELSE update_statusbar(w)

\* entry of a handler: nothing observed yet
Enter(w) == [w EXCEPT !.obs = ObsNone]

---------------------------------------------------------------------------
(* Navigation *)

\* FeReaderWindow.go_prev
go_prev(w) ==
    IF w.pages = << >> THEN w
    ELSE IF w.current_index > 0
    THEN update_view([w EXCEPT !.current_index = @ - 1])
    ELSE w

\* go_next without the last-page test
go_next_unbounded(w) ==
    IF w.pages = << >> THEN w
    ELSE update_view([w EXCEPT !.current_index = @ + 1])

\* FeReaderWindow.go_next
go_next(w) ==
    IF w.pages = << >> THEN w
    ELSE IF w.current_index < Len(w.pages) - 1
    THEN update_view([w EXCEPT !.current_index = @ + 1])
    ELSE w

\* wheelEvent that turns the page wherever the scroll bar is
wheelEvent_anywhere(w, delta, bar) ==
    IF delta > 0
    THEN go_prev([w EXCEPT !.obs.requests = Append(@, "prev")])
    ELSE IF delta < 0
    THEN go_next([w EXCEPT !.obs.requests = Append(@, "next")])
    ELSE [w EXCEPT !.obs.scrolled = TRUE]

\* PageScrollArea.wheelEvent of single_scroll (on_scroll_prev = go_prev,
\* on_scroll_next = go_next); delta is event.angleDelta().y() and bar the
\* vertical scroll bar; obs.requests lists the callbacks called and
\* obs.scrolled says that the event went on to QScrollArea.wheelEvent
wheelEvent(w, delta, bar) ==
    LET at_top == bar.value = bar.minimum
        at_bottom == bar.value = bar.maximum
    IN IF delta > 0 /\ at_top
       THEN go_prev([w EXCEPT !.obs.requests = Append(@, "prev")])
       ELSE IF delta < 0 /\ at_bottom
       THEN go_next([w EXCEPT !.obs.requests = Append(@, "next")])
       ELSE [w EXCEPT !.obs.scrolled = TRUE]

\* FeReaderWindow.go_to_page_dialog; value and ok are what
\* QInputDialog.getInt(min=1, max=len(pages)) returns
go_to_page_dialog(w, value, ok) ==
    IF w.pages = << >> THEN w
    ELSE IF ok
    THEN update_view([w EXCEPT !.current_index = value - 1])
    ELSE w

---------------------------------------------------------------------------
(* Zoom *)

\* zoom_in without the upper limit on the PDF zoom factor
zoom_in_unclamped(w) ==
    IF w.pages = << >> THEN w
    ELSE IF w.current_book_type = "pdf"
    THEN update_view(
             [w EXCEPT !.current_zoom = @ + ZoomStep,
                       !.continuous_needs_build =
                           IF w.view_mode = "continuous" THEN TRUE ELSE @])
    ELSE LET f == w.current_font_size + 1
             f1 == IF f > FontMax THEN FontMax ELSE f
         IN update_view([w EXCEPT !.current_font_size = f1])

\* FeReaderWindow.zoom_in
zoom_in(w) ==
    IF w.pages = << >> THEN w
    ELSE IF w.current_book_type = "pdf"
    THEN LET z == w.current_zoom + ZoomStep
             z1 == IF z > ZoomMax THEN ZoomMax ELSE z
         IN update_view(
                [w EXCEPT !.current_zoom = z1,
                          !.continuous_needs_build =
                              IF w.view_mode = "continuous" THEN TRUE ELSE @])
    ELSE LET f == w.current_font_size + 1
             f1 == IF f > FontMax THEN FontMax ELSE f
         IN update_view([w EXCEPT !.current_font_size = f1])

\* zoom_out that steps the font size for a PDF as well
zoom_out_font_too(w) ==
    IF w.pages = << >> THEN w
    ELSE LET z == w.current_zoom - ZoomStep
             z1 == IF z < ZoomMin THEN ZoomMin ELSE z
             f == w.current_font_size - 1
             f1 == IF f < FontMin THEN FontMin ELSE f
         IN IF w.current_book_type = "pdf"
            THEN update_view(
                     [w EXCEPT !.current_zoom = z1,
                               !.current_font_size = f1,
                               !.continuous_needs_build =
                                   IF w.view_mode = "continuous"
                                   THEN TRUE ELSE @])
            ELSE update_view([w EXCEPT !.current_font_size = f1])

\* FeReaderWindow.zoom_out
zoom_out(w) ==
    IF w.pages = << >> THEN w
    ELSE IF w.current_book_type = "pdf"
    THEN LET z == w.current_zoom - ZoomStep
             z1 == IF z < ZoomMin THEN ZoomMin ELSE z
         IN update_view(
                [w EXCEPT !.current_zoom = z1,
                          !.continuous_needs_build =
                              IF w.view_mode = "continuous" THEN TRUE ELSE @])
    ELSE LET f == w.current_font_size - 1
             f1 == IF f < FontMin THEN FontMin ELSE f
         IN update_view([w EXCEPT !.current_font_size = f1])

\* FeReaderWindow.zoom_label_clicked; value and ok are what
\* QInputDialog.getInt(min=50, max=300) returns
zoom_label_clicked(w, value, ok) ==
    IF w.pages = << >> THEN w
    ELSE IF ~ok THEN w
    ELSE IF w.current_book_type = "pdf"
    THEN LET z == value
             z1 == IF z < ZoomMin THEN ZoomMin ELSE z
             z2 == IF z1 > ZoomMax THEN ZoomMax ELSE z1
         IN update_view(
                [w EXCEPT !.current_zoom = z2,
                          !.continuous_needs_build =
                              IF w.view_mode = "continuous" THEN TRUE ELSE @])
    ELSE LET n == (w.base_font_size * value) \div 100
             n1 == IF n < FontMin THEN FontMin ELSE n
             n2 == IF n1 > FontMax THEN FontMax ELSE n1
         IN update_view([w EXCEPT !.current_font_size = n2])

---------------------------------------------------------------------------
(* View mode and settings *)

\* FeReaderWindow.set_view_mode
set_view_mode(w, mode) ==
    IF w.current_book_type # "pdf" THEN w
    ELSE IF mode = "single"
    THEN update_view([w EXCEPT !.view_mode = "single"])
    ELSE IF mode = "continuous"
    THEN update_view([w EXCEPT !.view_mode = "continuous",
                               !.continuous_needs_build = TRUE])
    ELSE w

\* FeReaderWindow.open_settings_dialog; accepted and size are the dialog's
\* result and the value of its size spin box (range 8..48)
open_settings_dialog(w, accepted, values) ==
    IF w.language \notin LangStrings
    THEN [w EXCEPT !.crashed = TRUE]
    ELSE IF accepted
    THEN update_view(save_settings(
             [w EXCEPT !.font_family = values.font_family,
                       !.base_font_size = values.font_size,
                       !.current_font_size = values.font_size,
                       !.theme = values.theme,
                       !.language = values.language]))
    ELSE w

---------------------------------------------------------------------------
(* Opening a document *)

\* What the engines and the password prompt do during one open_file call:
\*   fail   = -1: the engine raises nothing;
\*   fail   =  0: fitz.open / epub.read_epub (or the extraction of the EPUB
\*                items) raises;
\*   fail   =  i >= 1: rendering page i / cleaning chapter i raises, after
\*                i - 1 pages have been appended;
\*   answer = what QInputDialog.getText returns for an encrypted PDF.
Answers == {"cancel", "empty", "wrong", "right"}

Engine(path) ==
    IF Disk(path).needs_pass
    THEN [fail : {-1}, answer : Answers \ {"right"}]
             \cup [fail : -1 .. Disk(path).n, answer : {"right"}]
    ELSE [fail : -1 .. Disk(path).n, answer : {"right"}]

\* the first m page numbers, as load_pdf appends them: len(self.pages)
PageNumbers(m) == [i \in 1..m |-> i - 1]

\* the first m images of the PDF at path
Images(path, m) == [i \in 1..m |-> Img(path, i)]

\* the first m cleaned chapters of the EPUB at path
Chapters(path, m) == [i \in 1..m |-> Html(path, i)]

\* the page loop of load_pdf (lines 896-908)
pdf_page_loop(w, path, eng) ==
    LET n == Disk(path).n IN
    IF eng.fail >= 1
    THEN [w |-> [w EXCEPT !.pages = PageNumbers(eng.fail - 1),
                          !.pdf_images = Images(path, eng.fail - 1)],
          raised |-> TRUE, result |-> "engine_error"]
    ELSE [w |-> [w EXCEPT !.pages = PageNumbers(n),
                          !.pdf_images = Images(path, n)],
          raised |-> FALSE, result |-> "ok"]

\* FeReaderWindow.load_pdf; the result says whether it raised
load_pdf(w0, path, eng) ==
    LET w == [w0 EXCEPT !.current_book_type = "pdf",
                        !.pages = << >>,
                        !.pdf_images = << >>,
                        !.current_zoom = ZoomDefault,
                        !.view_mode = "single",
                        !.continuous_needs_build = TRUE]
    IN
    IF eng.fail = 0
    THEN [w |-> w, raised |-> TRUE, result |-> "engine_error"]
    ELSE IF Disk(path).needs_pass
    THEN LET w1 == [w EXCEPT !.obs.prompts = @ + 1] IN
         IF eng.answer \in {"cancel", "empty"}
         THEN [w |-> w1, raised |-> FALSE, result |-> "auth_cancelled"]
         ELSE LET w2 == [w1 EXCEPT !.obs.auths = @ + 1] IN
              IF eng.answer = "wrong"
              THEN [w |-> w2, raised |-> FALSE, result |-> "auth_failed"]
              ELSE pdf_page_loop(w2, path, eng)
    ELSE pdf_page_loop(w, path, eng)

\* tempfile.mkdtemp: the name of a directory that does not exist; names
\* are random, so it is also none the window still remembers
mkdtemp(existing, known) ==
    CHOOSE d \in 1 .. Cardinality(existing) + 2 :
        /\ d \notin existing \cup {known}
        /\ \A e \in 1 .. d - 1 : e \in existing \cup {known}

\* _cleanup_epub_temp that forgets the directory without removing it
cleanup_epub_temp_forget(w) ==
    [w EXCEPT !.epub_temp_dir = NoDir]

\* FeReaderWindow._cleanup_epub_temp
cleanup_epub_temp(w) ==
    IF w.epub_temp_dir # NoDir /\ w.epub_temp_dir \in w.temp_dirs
    THEN [w EXCEPT !.temp_dirs = @ \ {w.epub_temp_dir},
                   !.obs.rmtrees = @ + 1,
                   !.epub_temp_dir = NoDir]
    ELSE [w EXCEPT !.epub_temp_dir = NoDir]

\* FeReaderWindow.load_epub; the result says whether it raised
load_epub(w0, path, eng) ==
    LET n == Disk(path).n
        w1 == cleanup_epub_temp(
                  [w0 EXCEPT !.current_book_type = "epub",
                             !.pages = << >>,
                             !.current_font_size = w0.base_font_size])
        d == mkdtemp(w1.temp_dirs, w0.epub_temp_dir)
        w == [w1 EXCEPT !.epub_temp_dir = d,
                        !.temp_dirs = @ \cup {d}]
    IN
    IF eng.fail = 0
    THEN [w |-> w, raised |-> TRUE, result |-> "engine_error"]
    ELSE IF eng.fail >= 1
    THEN [w |-> [w EXCEPT !.pages = Chapters(path, eng.fail - 1)],
          raised |-> TRUE, result |-> "engine_error"]
    ELSE [w |-> [w EXCEPT !.pages = IF n = 0 THEN << NoContentHtml >>
                                    ELSE Chapters(path, n)],
          raised |-> FALSE, result |-> "ok"]

\* FeReaderWindow.open_file; path is what QFileDialog.getOpenFileName
\* returns (NoPath when the dialog is cancelled)
open_file(w, path, eng) ==
    IF path = NoPath THEN [w EXCEPT !.obs.open = "no_file"]
    ELSE
    LET ext == lower(splitext1(path)) IN
    IF ext \notin {".pdf", ".epub"}
    THEN [w EXCEPT !.obs.open = "unsupported"]
    ELSE
    LET r == IF ext = ".pdf" THEN load_pdf(w, path, eng)
             ELSE load_epub(w, path, eng)
    IN
    IF r.raised
    THEN [r.w EXCEPT !.obs.open = r.result]
    ELSE update_view([r.w EXCEPT !.current_book_path = path,
                                 !.current_book_title = basename(path),
                                 !.current_index = 0,
                                 !.obs.open = r.result,
                                 !.obs.k = IF r.result = "ok" THEN 0 ELSE -1])

---------------------------------------------------------------------------
(* Closing the window *)

\* FeReaderWindow.closeEvent
closeEvent(w) ==
    [save_settings(cleanup_epub_temp(w)) EXCEPT !.closed = TRUE]

---------------------------------------------------------------------------
(* The state after FeReaderWindow.__init__ *)

StartedFrom(file) ==
    LET c == load_or_create_settings(file)
        general == c["General"]
        valid == IsDecimal(general["font_size"])
    IN
    /\ config = c
    /\ settings_file = IniFile(c)
    /\ language = general["language"]
    /\ theme = general["theme"]
    /\ font_family = general["font_family"]
    \* int() raises ValueError: the window is never constructed
    /\ base_font_size = (IF valid THEN int(general["font_size"]) ELSE 0)
    /\ crashed = ~valid
    /\ obs = [ObsNone EXCEPT !.renders = << TRUE >>,
                             !.started = TRUE, !.prior = file]
    /\ current_book_type = "none"
    /\ current_book_path = NoPath
    /\ current_book_title = Untitled
    /\ pages = << >>
    /\ current_index = 0
    /\ current_font_size = base_font_size
    /\ current_zoom = ZoomDefault
    /\ pdf_images = << >>
    /\ epub_temp_dir = NoDir
    /\ temp_dirs = {}
    /\ view_mode = "single"
    /\ continuous_needs_build = TRUE
    /\ stack = "text_view"
    /\ text_view = Placeholder
    /\ single_image_label = NoPixmap
    /\ statusbar = Placeholder
    /\ multi_layout = << >>
    /\ closed = FALSE

\* settings.ini as an earlier session with the default theme, font and
\* language left it
SavedFile(size) ==
    IniFile("General" :> [defaults EXCEPT !.font_size = str(size)])

Started == \E size \in SpinValues : StartedFrom(SavedFile(size))

\* PDF, EPUB and other files on disk; sessions of at most MaxSteps handler
\* calls
Init ==
    /\ Started
    /\ disk = Paths
    /\ bounded = TRUE
    /\ budget = MaxSteps

\* only the unencrypted PDF (and an unsupported file) on disk; sessions of
\* at most MaxPdfSteps handler calls
InitPdf ==
    /\ Started
    /\ disk = {PathA, PathT}
    /\ bounded = TRUE
    /\ budget = MaxPdfSteps

\* only EPUB (and unsupported) files on disk; sessions of any length
InitEpub ==
    /\ Started
    /\ disk = {PathB, PathT}
    /\ bounded = FALSE
    /\ budget = 0

\* any settings.ini; a PDF, an EPUB and an unsupported file on disk;
\* sessions of at most MaxSettingsSteps handler calls
InitSettings ==
    /\ \E file \in SettingsFiles : StartedFrom(file)
    /\ disk = {PathA, PathB, PathT}
    /\ bounded = TRUE
    /\ budget = MaxSettingsSteps

---------------------------------------------------------------------------
(* One action per handler.  After an exception has escaped a handler the   *)
(* application is gone (PyQt5 aborts on an unhandled exception in a slot). *)

\* a handler is called: the application is alive and the session goes on
Handler ==
    /\ ~crashed
    /\ ~closed
    /\ bounded => budget > 0
    /\ budget' = IF bounded THEN budget - 1 ELSE budget
    /\ bounded' = bounded
    /\ disk' = disk

OpenFile ==
    /\ Handler
    /\ \E path \in disk \cup {NoPath} :
         \E eng \in Engine(path) :
            Apply(open_file(Enter(Self), path, eng))

GoPrev ==
    /\ Handler
    /\ Apply(go_prev(Enter(Self)))

\* go_next also counts the go_next calls made in a row since a successful
\* open (obs.k), up to one more than the longest document
GoNext ==
    /\ Handler
    /\ LET w == go_next(Enter(Self)) IN
       Apply([w EXCEPT !.obs.k = IF obs.k >= 0 /\ obs.k <= MaxPages
                                 THEN obs.k + 1 ELSE -1])

GoToPageDialog ==
    /\ Handler
    /\ \E value \in 1 .. (IF pages = << >> THEN 1 ELSE Len(pages)) :
         \E ok \in (IF value = 1 THEN BOOLEAN ELSE {TRUE}) :
            Apply(go_to_page_dialog(Enter(Self), value, ok))

ZoomIn ==
    /\ Handler
    /\ Apply(zoom_in(Enter(Self)))

ZoomOut ==
    /\ Handler
    /\ Apply(zoom_out(Enter(Self)))

ZoomLabelClicked ==
    /\ Handler
    /\ \E value \in ZoomDialogValues :
         \E ok \in (IF value = ZoomMin THEN BOOLEAN ELSE {TRUE}) :
            Apply(zoom_label_clicked(Enter(Self), value, ok))

\* the mode strings set_view_mode is called with: the two of the toolbar
\* and one it does not know
ViewModes == {"single", "continuous", "thumbnails"}

SetViewModeTo(mode) ==
    /\ Handler
    /\ Apply(set_view_mode(Enter(Self), mode))

SetViewMode ==
    \E mode \in ViewModes : SetViewModeTo(mode)

OpenSettingsDialog ==
    /\ Handler
    /\ \E values \in DialogValues :
         \E accepted \in (IF values.font_size = SpinMin
                           THEN BOOLEAN ELSE {TRUE}) :
            Apply(open_settings_dialog(Enter(Self), accepted, values))

\* the wheel is turned over single_scroll, the page of the stack shown
WheelEventWith(delta, bar) ==
    /\ Handler
    /\ stack = "single_scroll"
    /\ Apply(wheelEvent(Enter(Self), delta, bar))

WheelEvent ==
    \E delta \in Deltas, bar \in Bars : WheelEventWith(delta, bar)

CloseEvent ==
    /\ Handler
    /\ Apply(closeEvent(Enter(Self)))

Next ==
    \/ OpenFile
    \/ GoPrev
    \/ GoNext
    \/ GoToPageDialog
    \/ ZoomIn
    \/ ZoomOut
    \/ ZoomLabelClicked
    \/ SetViewMode
    \/ OpenSettingsDialog
    \/ WheelEvent
    \/ CloseEvent

Spec == Init /\ [][Next]_vars

SpecPdf == InitPdf /\ [][Next]_vars

SpecSettings == InitSettings /\ [][Next]_vars

SpecEpub == InitEpub /\ [][Next]_vars

---------------------------------------------------------------------------
(* Properties *)

FailedOpen == {"unsupported", "auth_cancelled", "auth_failed", "engine_error"}

Navigation == GoPrev \/ GoNext \/ GoToPageDialog

\* C1: in every reachable state the page list is empty or
\* 0 <= current_index < len(pages).
C1_IndexValid ==
    pages = << >> \/ (0 <= current_index /\ current_index < Len(pages))

\* C2: with N >= 1 pages in the page list no navigation handler yields an
\* index outside 0..N-1, and with an empty page list every navigation
\* handler leaves index, zoom, font size, layout mode, dirty flag and
\* document unchanged.
C2_NavigateInRange ==
    [][Navigation =>
         IF pages = << >>
         THEN UNCHANGED << current_index, current_zoom, current_font_size,
                           view_mode, continuous_needs_build,
                           current_book_type, current_book_path,
                           current_book_title, pages, pdf_images >>
         ELSE current_index' \in 0 .. Len(pages) - 1]_vars

\* C3: k go_next calls in a row directly after a successful open of an
\* N-page document leave current_index = min(k, N-1); every go_prev call
\* subtracts exactly 1 from an index above 0 and leaves index 0 unchanged.
C3_NextSaturates ==
    /\ [](obs.k >= 0 => current_index = Min(obs.k, Len(pages) - 1))
    /\ [][GoPrev /\ pages # << >> =>
            current_index' = IF current_index > 0 THEN current_index - 1
                             ELSE current_index]_vars

\* C3 witness: the go_next call after the last page was reached left the
\* index at N-1.
C3_Witness ==
    /\ obs.k = Len(pages)
    /\ Len(pages) = MaxPages
    /\ current_index = MaxPages - 1

\* C4: the PDF zoom factor is within [0.5, 3.0] (50..300 hundredths) in
\* every reachable state.
C4_ZoomInRange ==
    ZoomMin <= current_zoom /\ current_zoom <= ZoomMax

\* C4 witness: a zoom handler has rendered an open PDF at the upper limit.
C4_Witness ==
    /\ current_book_type = "pdf"
    /\ pages # << >>
    /\ obs.renders # << >>
    /\ obs.open = "none"
    /\ current_zoom = ZoomMax

\* C5: the font size of the reflowable view is within [8, 40] in every
\* reachable state.
C5_FontInRange ==
    FontMin <= current_font_size /\ current_font_size <= FontMax

\* C6: every successful open leaves index 0, zoom 1.0, font size = base
\* font size, single-page layout and the dirty flag set.
C6_OpenResets ==
    obs.open = "ok" =>
        /\ current_index = 0
        /\ current_zoom = ZoomDefault
        /\ current_font_size = base_font_size
        /\ view_mode = "single"
        /\ continuous_needs_build = TRUE

\* C7: for a PDF shown in continuous mode, a zoom handler enters the render
\* with the dirty flag set, the render rebuilds the layout exactly once and
\* clears the flag; a render caused by navigation alone rebuilds nothing
\* and leaves the flag clear.
C7_RebuildOnce ==
    [][(current_book_type = "pdf" /\ view_mode = "continuous"
            /\ pages # << >>) =>
         /\ \/ /\ obs'.renders = << TRUE >>
               /\ obs'.builds = 1
               /\ continuous_needs_build' = FALSE
            \/ ~(ZoomIn \/ ZoomOut
                    \/ (ZoomLabelClicked /\ obs'.renders # << >>))
         /\ \/ /\ obs'.builds = 0
               /\ continuous_needs_build' = FALSE
            \/ ~Navigation]_vars

\* C7 witness: a zoom step in continuous mode has rebuilt the layout once.
C7_Witness ==
    /\ current_book_type = "pdf"
    /\ view_mode = "continuous"
    /\ pages # << >>
    /\ current_zoom = ZoomDefault + ZoomStep
    /\ obs.renders = << TRUE >>
    /\ obs.builds = 1
    /\ continuous_needs_build = FALSE

\* C8: after any failed open_file call the page list is empty, the viewer
\* shows the placeholder and no exception has escaped.
C8_FailedOpenNoDocument ==
    obs.open \in FailedOpen =>
        /\ pages = << >>
        /\ stack = "text_view"
        /\ text_view = Placeholder
        /\ ~crashed

\* C9: opening the password-protected PDF prompts exactly once, a cancelled
\* or empty answer is followed by no authentication attempt and a wrong
\* one by exactly one; afterwards no pages are loaded and path and title
\* are not those of the refused file.
C9_AuthFailureUnset ==
    obs.open \in {"auth_cancelled", "auth_failed"} =>
        /\ obs.prompts = 1
        /\ obs.auths = (IF obs.open = "auth_failed" THEN 1 ELSE 0)
        /\ pages = << >>
        /\ current_book_path # PathS
        /\ current_book_title # basename(PathS)

\* the kind of document the extension of a path selects
KindOf(path) == IF lower(splitext1(path)) = ".pdf" THEN "pdf" ELSE "epub"

\* C10: after every completed open_file call the document kind, the page
\* list, the PDF images in use and the title in the status bar belong to
\* the document named by the current path (or no document is loaded).
C10_NoMixedDocument ==
    obs.open # "none" =>
        IF current_book_path = NoPath
        THEN /\ pages = << >>
             /\ statusbar = Placeholder
        ELSE /\ current_book_type = KindOf(current_book_path)
             /\ current_book_title = basename(current_book_path)
             /\ current_book_type = "pdf" =>
                  /\ Len(pdf_images) = Len(pages)
                  /\ \A i \in 1 .. Len(pdf_images) :
                        pdf_images[i] = Img(current_book_path, i)
             /\ current_book_type = "epub" =>
                  \A i \in 1 .. Len(pages) :
                     pages[i] \in {Html(current_book_path, i), NoContentHtml}
             /\ statusbar # Placeholder =>
                  statusbar[1] = basename(current_book_path)

---------------------------------------------------------------------------
(* The directory an EPUB is extracted to *)

\* C11: when a document is opened successfully, the directory the window
\* referred to before the open (the one of the document being replaced)
\* does not exist afterwards; when the window is closed, the directory it
\* referred to does not exist afterwards and the reference is dropped.
C11_TempDirReleased ==
    [][ /\ (obs'.open = "ok" /\ epub_temp_dir \in temp_dirs)
            => epub_temp_dir \notin temp_dirs'
        /\ (closed' /\ ~closed)
            => /\ epub_temp_dir \notin temp_dirs'
               /\ epub_temp_dir' = NoDir ]_vars

\* C12: in every reachable state at most one extracted directory exists,
\* and it is the one epub_temp_dir refers to; once the window is closed no
\* extracted directory exists.
C12_NoTempDirLeak ==
    /\ temp_dirs \subseteq {epub_temp_dir}
    /\ closed => temp_dirs = {}

\* the window was closed while the directory of an EPUB whose open had
\* failed after mkdtemp existed, and closeEvent removed it
C12_Witness ==
    /\ closed
    /\ obs.rmtrees = 1
    /\ current_book_type = "epub"
    /\ pages = << >>
    /\ temp_dirs = {}

---------------------------------------------------------------------------
(* Layout mode and zoom *)

\* C13: set_view_mode changes neither layout mode, dirty flag, index, zoom
\* nor font size when the current document is reflowable or no document is
\* loaded; for a PDF, set_view_mode("continuous") leaves the layout mode
\* continuous and its render has seen the dirty flag set; a mode string
\* other than "single" and "continuous" changes nothing.
C13_SetViewMode ==
    [][\A mode \in ViewModes : SetViewModeTo(mode) =>
         /\ (current_book_type # "pdf" \/ pages = << >>) =>
               UNCHANGED << view_mode, continuous_needs_build,
                            current_index, current_zoom, current_font_size >>
         /\ (current_book_type = "pdf" /\ pages # << >>
                /\ mode = "continuous") =>
               /\ view_mode' = "continuous"
               /\ obs'.renders = << TRUE >>
         /\ mode \notin {"single", "continuous"} =>
               UNCHANGED << view_mode, continuous_needs_build,
                            current_index, current_zoom, current_font_size,
                            stack, text_view, single_image_label,
                            statusbar >> ]_vars

Zooming == ZoomIn \/ ZoomOut \/ ZoomLabelClicked

\* C14: while a PDF is open no zoom handler (zoom_in, zoom_out,
\* zoom_label_clicked) changes the font size or the layout mode; while a
\* reflowable document is open no zoom handler changes the PDF zoom factor,
\* the layout mode or the dirty flag.
C14_ZoomFrame ==
    [][(pages # << >> /\ Zooming) =>
         /\ current_book_type = "pdf" =>
               UNCHANGED << current_font_size, view_mode >>
         /\ current_book_type = "epub" =>
               UNCHANGED << current_zoom, view_mode,
                            continuous_needs_build >> ]_vars

\* C14 witness: zoom_out has stepped the zoom of a PDF shown in continuous
\* mode, and the font size still is the base font size.
C14_Witness ==
    /\ current_book_type = "pdf"
    /\ pages # << >>
    /\ view_mode = "continuous"
    /\ current_zoom = ZoomDefault - ZoomStep
    /\ obs.builds = 1
    /\ current_font_size = base_font_size

---------------------------------------------------------------------------
(* Settings *)

\* section General of settings.ini before startup (empty if there is none)
Stored(file) ==
    IF file.exists /\ file.parsable /\ "General" \in DOMAIN file.sections
    THEN file.sections["General"] ELSE << >>

\* C15: when startup has loaded the settings, whatever settings.ini held
\* before (nothing, unparsable text, no General section, any subset of the
\* keys), settings.ini holds a General section with all four keys, each
\* key stored before with its stored value and each other key with its
\* default; this is so even if startup then fails.
C15_StartupSettings ==
    obs.started =>
        /\ settings_file.exists
        /\ settings_file.parsable
        /\ "General" \in DOMAIN settings_file.sections
        /\ \A key \in Keys :
              /\ key \in DOMAIN settings_file.sections["General"]
              /\ settings_file.sections["General"][key] =
                    IF key \in DOMAIN Stored(obs.prior)
                    THEN Stored(obs.prior)[key]
                    ELSE defaults[key]

\* C15 witness: settings.ini held a theme and a font size but no language
\* and no font family; after startup it holds them and both defaults.
C15_Witness ==
    /\ obs.started
    /\ DOMAIN Stored(obs.prior) = {"theme", "font_size"}
    /\ Stored(obs.prior)["theme"] = "dark"
    /\ settings_file.sections["General"] =
          [theme |-> "dark", font_family |-> "Segoe UI",
           font_size |-> << "0", "9" >>, language |-> "en"]
    /\ base_font_size = 9

\* settings.ini holds exactly the settings of the window
Persisted ==
    /\ settings_file.exists
    /\ settings_file.parsable
    /\ settings_file.sections["General"] =
          [theme |-> theme, font_family |-> font_family,
           font_size |-> str(base_font_size), language |-> language]

\* an accepted settings dialog: the only outcome of the handler that
\* renders
AcceptedDialog == OpenSettingsDialog /\ obs'.renders # << >>

\* C16: every step that is neither an accepted settings dialog nor the
\* closing of the window (open_file, navigation, zoom, layout mode, a
\* cancelled dialog) leaves theme, font family, base font size, language
\* and settings.ini unchanged; after an accepted dialog and after
\* closeEvent settings.ini holds exactly the settings of the window.
C16_SettingsFrame ==
    [][ /\ \/ UNCHANGED << theme, font_family, base_font_size, language,
                           settings_file >>
           \/ AcceptedDialog
           \/ (CloseEvent
                 /\ UNCHANGED << theme, font_family, base_font_size,
                                 language >>)
        /\ ((closed' /\ ~closed) \/ AcceptedDialog) => Persisted' ]_vars

\* C16 witness: settings.ini still held the font size as "09" when the
\* window was closed; closeEvent has written the settings of the window.
C16_Witness ==
    /\ closed
    /\ base_font_size = 9
    /\ theme = "dark"
    /\ Persisted

\* C17: whatever settings.ini held before, startup does not fail, and in
\* every state the settings of the window and of settings.ini have a theme
\* in {light, dark}, a font size that is an integer in 8..48 and a
\* language of LANG_STRINGS, so that the settings dialog opens.
C17_SettingsValid ==
    /\ ~crashed
    /\ theme \in {"light", "dark"}
    /\ SpinMin <= base_font_size /\ base_font_size <= SpinMax
    /\ language \in LangStrings
    /\ LET general == settings_file.sections["General"]
       IN /\ general["theme"] \in {"light", "dark"}
          /\ IsDecimal(general["font_size"])
          /\ SpinMin <= int(general["font_size"])
          /\ int(general["font_size"]) <= SpinMax
          /\ general["language"] \in LangStrings

---------------------------------------------------------------------------
(* Turning pages with the wheel *)

\* C18: a wheel event over the single-page view calls at most one of
\* go_prev and go_next: go_prev only if delta > 0 and the scroll bar is at
\* its minimum, go_next only if delta < 0 and the bar is at its maximum;
\* if it calls neither, the event scrolls and the page index stays; a
\* go_prev on the first page and a go_next on the last leave the index.
C18_WheelTurnsPage ==
    [][(obs'.requests # << >> \/ obs'.scrolled) =>
         \A delta \in Deltas, bar \in Bars : WheelEventWith(delta, bar) =>
           /\ Len(obs'.requests) <= 1
           /\ obs'.requests = << "prev" >> =>
                 /\ delta > 0 /\ bar.value = bar.minimum
                 /\ ~obs'.scrolled
                 /\ current_index = 0 => current_index' = 0
           /\ obs'.requests = << "next" >> =>
                 /\ delta < 0 /\ bar.value = bar.maximum
                 /\ ~obs'.scrolled
                 /\ current_index = Len(pages) - 1 =>
                       current_index' = current_index
           /\ obs'.requests = << >> =>
                 /\ obs'.scrolled
                 /\ current_index' = current_index ]_vars

\* C18 witness: the wheel was turned down at the bottom of the first page
\* of a PDF, and go_next has shown the second page.
C18_Witness ==
    /\ obs.requests = << "next" >>
    /\ current_book_type = "pdf"
    /\ current_index = 1
    /\ stack = "single_scroll"
    /\ statusbar = << basename(PathA), 2, MaxPages >>

---------------------------------------------------------------------------
(* The continuous layout *)

\* C19: after every handler that leaves the continuous view displayed, the
\* layout consists of exactly the page images of the current document,
\* each scaled by the current zoom; a zoom handler called in single-page
\* mode rebuilds nothing.
C19_LayoutFresh ==
    [][ /\ stack' = "multi_scroll" =>
              /\ Len(multi_layout') = Len(pdf_images')
              /\ \A i \in 1 .. Len(pdf_images') :
                    multi_layout'[i] = Scaled(pdf_images'[i], current_zoom')
        /\ (view_mode = "single" /\ Zooming) => obs'.builds = 0 ]_vars

\* the magnification in effect: the zoom of a PDF, the font size of a
\* reflowable document
Magnification ==
    IF current_book_type = "pdf" THEN current_zoom ELSE current_font_size

\* C20: with a document open, zoom_in never makes the magnification in
\* effect smaller and zoom_out never makes it larger.
C20_ZoomMonotone ==
    [][pages # << >> =>
         /\ ZoomIn => Magnification' >= Magnification
         /\ ZoomOut => Magnification' <= Magnification ]_vars

====
